---- MODULE Spec2Model ----
(***************************************************************************)
(* A model of c_linter.py: the pointer-spacing normalizer, the brace       *)
(* placement rewriter, the line linter and the command-line driver.        *)
(*                                                                         *)
(* Text is modelled character by character: a line is a sequence of        *)
(* one-character strings, a file is a sequence of lines, each line ending  *)
(* in "\n" (the last line of a file may lack it), as readlines() returns   *)
(* them.  Regular expressions are sequences of items interpreted by a      *)
(* backtracking matcher with the priorities of Python's re module          *)
(* (greedy repetition, optional group tried first, leftmost match).        *)
(***************************************************************************)
EXTENDS Integers, Sequences, FiniteSets, TLC

VARIABLES
    argv,      \* sys.argv without the program name: a sequence of arguments
    disk,      \* path -> content of the file (a sequence of lines)
    disk0,     \* the content of every file when the run started
    walk,      \* the order in which the file system lists the files of d
    files,     \* files_to_lint
    idx,       \* index in files of the file being processed
    do_fix,    \* the parsed fix flag
    pc,        \* position of the run
    lines,     \* the lines held in memory by the function running
    input,     \* the lines as first read
    prev,      \* the lines the last function applied was given
    out,       \* what has been printed: a sequence of events
    log,       \* history: the file operations performed, in order
    exitCode,  \* process exit status, -1 while running
    encoding   \* the encoding of standard output

vars == <<argv, disk, disk0, walk, files, idx, do_fix, pc, lines, input, prev,
          out, log, exitCode, encoding>>

----------------------------------------------------------------------------
(* Characters                                                              *)

\* what Python's \s and str.strip() treat as whitespace, among the ASCII
\* characters: space, \t, \n, \r, \f, \x0b (vertical tab) and the separators
\* \x1c to \x1f (the last five are written as the characters themselves)
Whitespace ==
    {" ", "\t", "\n", "\r", "\f", "", "", "", "", ""}

\* what Python's \w matches (ASCII part)
WordChars ==
    {"a","b","c","d","e","f","g","h","i","j","k","l","m","n","o","p","q","r",
     "s","t","u","v","w","x","y","z","A","B","C","D","E","F","G","H","I","J",
     "K","L","M","N","O","P","Q","R","S","T","U","V","W","X","Y","Z","0","1",
     "2","3","4","5","6","7","8","9","_"}

\* the text of a sequence of lines, as f.writelines(lines) writes it
RECURSIVE Concat(_)
Concat(ss) == IF ss = <<>> THEN <<>> ELSE Head(ss) \o Concat(Tail(ss))

----------------------------------------------------------------------------
(* Regular expressions (Python's re)                                       *)

\* a character class: the characters of cs, or all others when neg
One(neg, cs)  == [t |-> "one", neg |-> neg, cs |-> cs]
Lit(c)        == One(FALSE, {c})
\* greedy repetition of a character class, at least min times
Rep(neg, cs, min) == [t |-> "rep", neg |-> neg, cs |-> cs, min |-> min]
Star(neg, cs) == Rep(neg, cs, 0)
Plus(neg, cs) == Rep(neg, cs, 1)
\* (?:sub)?
Opt(sub)      == [t |-> "opt", sub |-> sub]
\* the parentheses of capture group g
Open(g)       == [t |-> "open", g |-> g]
Close(g)      == [t |-> "close", g |-> g]
\* \b and ^
WB            == [t |-> "wb"]
BOL           == [t |-> "bol"]

InClass(it, c) == (c \in it.cs) # it.neg

NoMatch == [ok |-> FALSE, start |-> 0, end |-> 0, caps |-> <<>>]

NoCaps == [g \in 1..2 |-> <<0, 0>>]

IsWordAt(s, i) == i >= 1 /\ i <= Len(s) /\ s[i] \in WordChars

\* \b holds at position i (between s[i-1] and s[i])
WordBoundary(s, i) == IsWordAt(s, i - 1) # IsWordAt(s, i)

\* the number of consecutive characters of s from i that are in the class
RECURSIVE Run(_, _, _)
Run(it, s, i) ==
    IF i <= Len(s) /\ InClass(it, s[i]) THEN 1 + Run(it, s, i + 1) ELSE 0

RECURSIVE MatchAt(_, _, _, _)
RECURSIVE TryRep(_, _, _, _, _, _)

\* match the items of re against s from position i; the first match in
\* the matcher's priority order, or NoMatch
MatchAt(re, s, i, caps) ==
    IF Len(re) = 0
    THEN [ok |-> TRUE, start |-> 0, end |-> i, caps |-> caps]
    ELSE LET it == Head(re)
             rest == Tail(re)
         IN CASE it.t = "one" ->
                    IF i <= Len(s) /\ InClass(it, s[i])
                    THEN MatchAt(rest, s, i + 1, caps)
                    ELSE NoMatch
              [] it.t = "rep" ->
                    TryRep(rest, s, i, Run(it, s, i), it.min, caps)
              [] it.t = "opt" ->
                    LET r == MatchAt(it.sub \o rest, s, i, caps)
                    IN IF r.ok THEN r ELSE MatchAt(rest, s, i, caps)
              [] it.t = "open" ->
                    MatchAt(rest, s, i, [caps EXCEPT ![it.g] = <<i, i>>])
              [] it.t = "close" ->
                    MatchAt(rest, s, i, [caps EXCEPT ![it.g] = <<@[1], i>>])
              [] it.t = "wb" ->
                    IF WordBoundary(s, i)
                    THEN MatchAt(rest, s, i, caps)
                    ELSE NoMatch
              [] it.t = "bol" ->
                    IF i = 1 THEN MatchAt(rest, s, i, caps) ELSE NoMatch

\* greedy repetition: take k characters, then k-1, ... down to min
TryRep(rest, s, i, k, min, caps) ==
    IF k < min
    THEN NoMatch
    ELSE LET r == MatchAt(rest, s, i + k, caps)
         IN IF r.ok THEN r ELSE TryRep(rest, s, i, k - 1, min, caps)

\* re.match(re, s)
ReMatch(re, s) == [MatchAt(re, s, 1, NoCaps) EXCEPT !.start = 1]

\* re.search(re, s) from position i on: the leftmost match
RECURSIVE SearchFrom(_, _, _)
SearchFrom(re, s, i) ==
    IF i > Len(s) + 1
    THEN NoMatch
    ELSE LET r == MatchAt(re, s, i, NoCaps)
         IN IF r.ok THEN [r EXCEPT !.start = i] ELSE SearchFrom(re, s, i + 1)

\* re.search(re, s)
ReSearch(re, s) == SearchFrom(re, s, 1)

\* match.group(g)
Group(s, m, g) == SubSeq(s, m.caps[g][1], m.caps[g][2] - 1)

\* a replacement template: \g references and literal characters
Ref(g)  == [t |-> "ref", g |-> g]
Chr(c)  == [t |-> "chr", c |-> c]

RECURSIVE Expand(_, _, _)
Expand(tpl, s, m) ==
    IF Len(tpl) = 0
    THEN <<>>
    ELSE LET it == Head(tpl)
         IN (IF it.t = "ref" THEN Group(s, m, it.g) ELSE <<it.c>>)
            \o Expand(Tail(tpl), s, m)

\* re.sub(re, tpl, s) from position i on: every non-overlapping match,
\* left to right, is replaced (the patterns used never match the empty
\* string)
RECURSIVE SubFrom(_, _, _, _)
SubFrom(re, tpl, s, i) ==
    LET m == SearchFrom(re, s, i)
    IN IF ~m.ok
       THEN SubSeq(s, i, Len(s))
       ELSE SubSeq(s, i, m.start - 1) \o Expand(tpl, s, m)
            \o SubFrom(re, tpl, s, m.end)

ReSub(re, tpl, s) == SubFrom(re, tpl, s, 1)

\* str.strip()
RECURSIVE LStrip(_)
LStrip(s) ==
    IF Len(s) > 0 /\ Head(s) \in Whitespace THEN LStrip(Tail(s)) ELSE s

RECURSIVE RStrip(_)
RStrip(s) ==
    IF Len(s) > 0 /\ s[Len(s)] \in Whitespace
    THEN RStrip(SubSeq(s, 1, Len(s) - 1))
    ELSE s

Strip(s) == RStrip(LStrip(s))

----------------------------------------------------------------------------
(* Pattern rules                                                           *)

\* r'\b(\w+)\s*\*\s*(\w+)'
POINTER_SPACING_PATTERN ==
    << WB, Open(1), Plus(FALSE, WordChars), Close(1),
       Star(FALSE, Whitespace), Lit("*"), Star(FALSE, Whitespace),
       Open(2), Plus(FALSE, WordChars), Close(2) >>

\* r'^(\s*)}\s*(else(?: if)?\b[^{]*)\s*{'
ELSE_BRACE_PATTERN ==
    << BOL, Open(1), Star(FALSE, Whitespace), Close(1), Lit("}"),
       Star(FALSE, Whitespace),
       Open(2), Lit("e"), Lit("l"), Lit("s"), Lit("e"),
       Opt(<< Lit(" "), Lit("i"), Lit("f") >>), WB, Star(TRUE, {"{"}),
       Close(2),
       Star(FALSE, Whitespace), Lit("{") >>

\* r'(.*\))\s*{\s*(.*)'
FUNCTION_BRACE_PATTERN ==
    << Open(1), Star(TRUE, {"\n"}), Lit(")"), Close(1),
       Star(FALSE, Whitespace), Lit("{"), Star(FALSE, Whitespace),
       Open(2), Star(TRUE, {"\n"}), Close(2) >>

\* r'\)\s*{'
BRACE_ON_SAME_LINE_PATTERN ==
    << Lit(")"), Star(FALSE, Whitespace), Lit("{") >>

\* r'[^\s].*{.*[^\s}]'
OPENING_BRACE_NOT_ALONE_PATTERN ==
    << One(TRUE, Whitespace), Star(TRUE, {"\n"}), Lit("{"),
       Star(TRUE, {"\n"}), One(TRUE, Whitespace \cup {"}"}) >>

\* r'[^\s].*}.*[^\s{]'
CLOSING_BRACE_NOT_ALONE_PATTERN ==
    << One(TRUE, Whitespace), Star(TRUE, {"\n"}), Lit("}"),
       Star(TRUE, {"\n"}), One(TRUE, Whitespace \cup {"{"}) >>

\* r'^\s*'
INDENT_PATTERN == << BOL, Star(FALSE, Whitespace) >>

\* r'\1 *\2'
POINTER_SPACING_REPLACEMENT == << Ref(1), Chr(" "), Chr("*"), Ref(2) >>

MSG_POINTER_SPACING == "put '*' next to variable (e.g., 'int* x')"
MSG_BRACE_NEW_LINE == "'{' must be on a new line"
MSG_OPENING_BRACE_ALONE == "'{' should be on its own line"
MSG_CLOSING_BRACE_ALONE == "'}' should be on its own line"

----------------------------------------------------------------------------
(* Pointer-spacing normalizer                                              *)

\* a misplaced parenthesis: the first group takes the whitespace too
POINTER_SPACING_PATTERN_wide ==
    << WB, Open(1), Plus(FALSE, WordChars),
       Star(FALSE, Whitespace), Close(1), Lit("*"), Star(FALSE, Whitespace),
       Open(2), Plus(FALSE, WordChars), Close(2) >>

fix_pointer_spacing_wide(line) ==
    ReSub(POINTER_SPACING_PATTERN_wide, POINTER_SPACING_REPLACEMENT, line)

fix_pointer_spacing(line) ==
    ReSub(POINTER_SPACING_PATTERN, POINTER_SPACING_REPLACEMENT, line)

----------------------------------------------------------------------------
(* Brace-placement rewriter                                                *)

NL == <<"\n">>

\* match.group(): the whole match
Group0(s, m) == SubSeq(s, m.start, m.end - 1)

\* lines 58-64: the three lines written for "} else {"
ElseLines(line, m) ==
    LET indent == Group(line, m, 1)
        control == Strip(Group(line, m, 2))
    IN << indent \o <<"}">> \o NL, indent \o control \o NL,
          indent \o <<"{">> \o NL >>

\* the trailing text is written even when it is empty
GeneralLines_always3(line, indent, m) ==
    LET prefix == Group(line, m, 1)
        suffix == Group(line, m, 2)
    IN << prefix \o NL, indent \o <<"{">> \o NL,
          indent \o Strip(suffix) \o NL >>

\* lines 68-75: the lines written for "(...) {"
GeneralLines(line, indent, m) ==
    LET prefix == Group(line, m, 1)
        suffix == Group(line, m, 2)
    IN << prefix \o NL, indent \o <<"{">> \o NL >>
       \o (IF Strip(suffix) # <<>>
           THEN << indent \o Strip(suffix) \o NL >>
           ELSE <<>>)

\* the general header shape is tried before the else shape
fix_brace_line_general_first(line) ==
    LET stripped == Strip(line)
        indent == Group0(line, ReMatch(INDENT_PATTERN, line))
        em == ReMatch(ELSE_BRACE_PATTERN, line)
        gm == ReSearch(FUNCTION_BRACE_PATTERN, line)
    IN IF stripped \in {<<"{">>, <<"}">>} THEN <<line>>
       ELSE IF gm.ok THEN GeneralLines(line, indent, gm)
       ELSE IF em.ok THEN ElseLines(line, em)
       ELSE <<line>>

\* lines 47-77: the body of fix_brace_placement's loop, for one line
fix_brace_line(line) ==
    LET stripped == Strip(line)
        indent == Group0(line, ReMatch(INDENT_PATTERN, line))
        em == ReMatch(ELSE_BRACE_PATTERN, line)
        gm == ReSearch(FUNCTION_BRACE_PATTERN, line)
    IN IF stripped \in {<<"{">>, <<"}">>} THEN <<line>>
       ELSE IF em.ok THEN ElseLines(line, em)
       ELSE IF gm.ok THEN GeneralLines(line, indent, gm)
       ELSE <<line>>

RECURSIVE fix_brace_placement(_)
fix_brace_placement(ls) ==
    IF ls = <<>>
    THEN <<>>
    ELSE fix_brace_line(Head(ls)) \o fix_brace_placement(Tail(ls))

\* lines 87-90: the fix pipeline of lint_and_fix_c_file
FixLines(ls) ==
    fix_brace_placement([i \in 1..Len(ls) |-> fix_pointer_spacing(ls[i])])

----------------------------------------------------------------------------
(* Line linter                                                             *)

Diag(lineno, msg) == [lineno |-> lineno, msg |-> msg]

\* lines 105-115: the diagnostics of one line, in the order printed
lint_line(lineno, line) ==
    (IF ReSearch(POINTER_SPACING_PATTERN, line).ok
     THEN << Diag(lineno, MSG_POINTER_SPACING) >> ELSE <<>>)
    \o (IF ReSearch(BRACE_ON_SAME_LINE_PATTERN, line).ok
        THEN << Diag(lineno, MSG_BRACE_NEW_LINE) >> ELSE <<>>)
    \o (IF ReSearch(OPENING_BRACE_NOT_ALONE_PATTERN, line).ok
        THEN << Diag(lineno, MSG_OPENING_BRACE_ALONE) >> ELSE <<>>)
    \o (IF ReSearch(CLOSING_BRACE_NOT_ALONE_PATTERN, line).ok
        THEN << Diag(lineno, MSG_CLOSING_BRACE_ALONE) >> ELSE <<>>)

RECURSIVE LintFrom(_, _)
LintFrom(ls, i) ==
    IF i > Len(ls) THEN <<>> ELSE lint_line(i, ls[i]) \o LintFrom(ls, i + 1)

\* the diagnostics lint_c_code prints for the lines it read
lint_c_code(ls) == LintFrom(ls, 1)

----------------------------------------------------------------------------
(* Inputs of the pure-function specifications                              *)

\* a line is made of at most MaxPieces pieces
MaxPieces == 4
\* each line of a two-line file is made of at most ShortPieces pieces
ShortPieces == 1
\* a line given to the normalizer alone is made of at most PtrPieces pieces
PtrPieces == 5

Pieces ==
    { <<" ">>, <<"{">>, <<"}">>, <<"(", "a", ")">>, <<"a">>, <<"*">>,
      <<"e", "l", "s", "e">>, <<" ", "i", "f">> }

PtrParts == { <<" ">>, <<"a">>, <<"*">>, <<";">> }

\* the concatenations of at most n pieces of ps
RECURSIVE Texts(_, _)
Texts(ps, n) ==
    IF n = 0
    THEN { <<>> }
    ELSE LET shorter == Texts(ps, n - 1)
         IN shorter \cup { t \o p : t \in shorter, p \in ps }

\* what readlines() can return for a text without "\n": the text with its
\* terminator, or (last line only, and never empty) without
Terminated(t) == t \o NL

LastLines(ts) == { Terminated(t) : t \in ts } \cup (ts \ { <<>> })

FixFiles ==
    { <<>> }
    \cup { <<l>> : l \in LastLines(Texts(Pieces, MaxPieces)) }
    \cup { <<Terminated(t), l>> :
              t \in Texts(Pieces, ShortPieces),
              l \in LastLines(Texts(Pieces, ShortPieces)) }

PtrFiles == { <<l>> : l \in LastLines(Texts(PtrParts, PtrPieces)) }

----------------------------------------------------------------------------
(* The fix pipeline and the linter on lines held in memory                 *)

Idle ==
    /\ argv = <<>>
    /\ disk = <<>>
    /\ disk0 = <<>>
    /\ walk = <<>>
    /\ files = <<>>
    /\ idx = 0
    /\ do_fix = FALSE
    /\ out = <<>>
    /\ log = <<>>
    /\ exitCode = -1
    /\ encoding = "utf-8"

InitFix ==
    /\ Idle
    /\ input \in FixFiles
    /\ lines = input
    /\ prev = input
    /\ pc = "read"

InitPtr ==
    /\ Idle
    /\ input \in PtrFiles
    /\ lines = input
    /\ prev = input
    /\ pc = "read"

\* line 87: lines = [fix_pointer_spacing(line) for line in lines]
Normalize ==
    /\ pc = "read"
    /\ lines' = [i \in 1..Len(lines) |-> fix_pointer_spacing(lines[i])]
    /\ prev' = lines
    /\ pc' = "normalized"
    /\ UNCHANGED <<encoding, argv, disk, disk0, walk, files, idx, do_fix, input, out,
                   log, exitCode>>

\* the normalizer applied to its own result
NormalizeAgain ==
    /\ pc = "normalized"
    /\ lines' = [i \in 1..Len(lines) |-> fix_pointer_spacing(lines[i])]
    /\ prev' = lines
    /\ pc' = "renormalized"
    /\ UNCHANGED <<encoding, argv, disk, disk0, walk, files, idx, do_fix, input, out,
                   log, exitCode>>

\* line 90: lines = fix_brace_placement(lines)
Rewrite ==
    /\ pc = "normalized"
    /\ lines' = fix_brace_placement(lines)
    /\ prev' = lines
    /\ pc' = "rewritten"
    /\ UNCHANGED <<encoding, argv, disk, disk0, walk, files, idx, do_fix, input, out,
                   log, exitCode>>

\* line 151: lint_c_code on the lines the fix wrote
LintFixed ==
    /\ pc = "rewritten"
    /\ out' = lint_c_code(lines)
    /\ pc' = "linted"
    /\ UNCHANGED <<encoding, argv, disk, disk0, walk, files, idx, do_fix, lines, input,
                   prev, log, exitCode>>

NextFix == Normalize \/ Rewrite \/ LintFixed

SpecFix == InitFix /\ [][NextFix]_vars

NextPtr == Normalize \/ NormalizeAgain

SpecPtr == InitPtr /\ [][NextPtr]_vars

----------------------------------------------------------------------------
(* The command-line driver                                                 *)

\* line 24
C_EXTENSIONS == { <<".", "c">>, <<".", "h">> }

\* str.endswith(suffixes)
EndsWith(s, sufs) ==
    \E suf \in sufs :
        /\ Len(suf) <= Len(s)
        /\ SubSeq(s, Len(s) - Len(suf) + 1, Len(s)) = suf

UpperCase ==
    <<"A","B","C","D","E","F","G","H","I","J","K","L","M","N","O","P","Q","R",
      "S","T","U","V","W","X","Y","Z">>

LowerCase ==
    <<"a","b","c","d","e","f","g","h","i","j","k","l","m","n","o","p","q","r",
      "s","t","u","v","w","x","y","z">>

\* str.lower()
Lower(s) ==
    [i \in 1..Len(s) |->
        IF \E k \in 1..Len(UpperCase) : UpperCase[k] = s[i]
        THEN LowerCase[CHOOSE k \in 1..Len(UpperCase) : UpperCase[k] = s[i]]
        ELSE s[i]]

\* line 132: do_fix = sys.argv[2].lower() == "true"
ParseFix(flag) == Lower(flag) = <<"t", "r", "u", "e">>

\* os.path.join(root, f): an absolute f stands alone, and no separator is
\* added to an empty root or to one that ends in "/"
Join(root, f) ==
    IF Len(f) > 0 /\ f[1] = "/" THEN f
    ELSE IF Len(root) = 0 \/ root[Len(root)] = "/" THEN root \o f
    ELSE root \o <<"/">> \o f

\* the file system of the model: directory d holds a.c and n.txt and the
\* directory d/s, which holds b.h
DirD  == <<"d">>
DirSlash == <<"d", "/">>
DirDS == <<"d", "/", "s">>
FileA == <<"d", "/", "a", ".", "c">>
FileB == <<"d", "/", "s", "/", "b", ".", "h">>
FileN == <<"d", "/", "n", ".", "t", "x", "t">>
Missing == <<"z", "z">>

Paths == {FileA, FileB, FileN}

\* os.path.isfile and os.path.isdir
IsFile(path) == path \in Paths
\* a path without its trailing separators
RECURSIVE StripSlashes(_)
StripSlashes(path) ==
    IF Len(path) > 1 /\ path[Len(path)] = "/"
    THEN StripSlashes(SubSeq(path, 1, Len(path) - 1))
    ELSE path

IsDir(path) == StripSlashes(path) \in {DirD, DirDS}

\* the orders in which the file system can list the files of d
Listings ==
    { << <<"a", ".", "c">>, <<"n", ".", "t", "x", "t">> >>,
      << <<"n", ".", "t", "x", "t">>, <<"a", ".", "c">> >> }

\* what os.walk(top) yields, top-down: each directory with its files, d's
\* in the order listed; nothing when top is no directory (the error of the
\* listing is ignored)
OsWalk(top, order) ==
    IF StripSlashes(top) = DirDS
    THEN << [root |-> top, files |-> << <<"b", ".", "h">> >>] >>
    ELSE IF StripSlashes(top) = DirD
    THEN << [root |-> top, files |-> order],
            [root |-> Join(top, <<"s">>), files |-> << <<"b", ".", "h">> >>] >>
    ELSE <<>>

\* lines 121-123: the C files among the names of one directory
RECURSIVE CFilesOf(_, _)
CFilesOf(root, names) ==
    IF names = <<>>
    THEN <<>>
    ELSE (IF EndsWith(Head(names), C_EXTENSIONS)
          THEN << Join(root, Head(names)) >>
          ELSE <<>>)
         \o CFilesOf(root, Tail(names))

\* lines 120-123: the loop over the entries os.walk yields
RECURSIVE WalkFiles(_)
WalkFiles(w) ==
    IF w = <<>>
    THEN <<>>
    ELSE CFilesOf(Head(w).root, Head(w).files) \o WalkFiles(Tail(w))

\* lines 117-124
get_all_c_files(path, order) == WalkFiles(OsWalk(path, order))

\* text mode with universal newlines: "\r\n" and a lone "\r" are read
\* as "\n"
RECURSIVE Universal(_)
Universal(text) ==
    IF text = <<>>
    THEN <<>>
    ELSE IF Head(text) = "\r"
    THEN << "\n" >>
         \o Universal(IF Len(text) > 1 /\ text[2] = "\n"
                      THEN SubSeq(text, 3, Len(text))
                      ELSE Tail(text))
    ELSE << Head(text) >> \o Universal(Tail(text))

\* the lines of a text whose line ends are all "\n", each with its "\n"
RECURSIVE SplitNL(_)
SplitNL(text) ==
    IF text = <<>>
    THEN <<>>
    ELSE IF \E k \in 1..Len(text) : text[k] = "\n"
         THEN LET k == CHOOSE k \in 1..Len(text) :
                          text[k] = "\n" /\ \A j \in 1..(k - 1) : text[j] # "\n"
              IN << SubSeq(text, 1, k) >>
                 \o SplitNL(SubSeq(text, k + 1, Len(text)))
         ELSE << text >>

\* f.readlines() of a file holding text
SplitLines(text) == SplitNL(Universal(text))

\* the contents a C file of the model starts with
SampleFiles ==
    { << <<"a", "\n">> >>,
      << <<"(", "a", ")", "{", "\n">>, <<"a", "*", "a", "\n">> >> }

Args ==
    { <<>> }
    \cup { <<t>> : t \in {DirD, DirSlash, DirDS, FileA, FileN, Missing} }
    \cup { <<t, f>> : t \in {DirD, DirSlash, DirDS, FileA, FileN, Missing},
                      f \in { <<"t", "r", "u", "e">>, <<"T", "r", "u", "e">>,
                              <<"f", "a", "l", "s", "e">> } }

Init ==
    /\ argv \in Args
    /\ disk \in { [p \in Paths |-> IF p = FileA THEN a ELSE IF p = FileB THEN b
                                   ELSE << <<"(", "a", ")", "{", "\n">> >>] :
                    a \in SampleFiles, b \in SampleFiles }
    /\ disk0 = disk
    /\ walk \in Listings
    /\ files = <<>>
    /\ idx = 0
    /\ do_fix = FALSE
    /\ pc = "start"
    /\ lines = <<>>
    /\ input = <<>>
    /\ prev = <<>>
    /\ out = <<>>
    /\ log = <<>>
    /\ exitCode = -1
    /\ encoding \in {"utf-8", "ascii"}

Event(op, file) == [op |-> op, file |-> file]

Printed(file, d) == [file |-> file, lineno |-> d.lineno, msg |-> d.msg]

Status(msg, file) == [file |-> file, lineno |-> 0, msg |-> msg]

\* the templates of the status lines; a character outside ASCII is written
\* \uXXXX, as ascii() writes it, and {} is where the file name goes
MSG_LINTING_COMPLETE == "\\u2705 {} linting and formatting complete."
MSG_USAGE == "Usage: python c_linter.py <file_or_dir> <fix:true|false>"
MSG_FILE_NOT_FOUND == "\\u274c Error: {} is not a file or directory."
MSG_NOT_C_FILE == "\\u274c Error: {} is not a C or header file."

\* the templates that hold a character outside ASCII
NonAsciiMessages == {MSG_LINTING_COMPLETE, MSG_FILE_NOT_FOUND, MSG_NOT_C_FILE}

\* print(message) succeeds: standard output can encode the message
CanPrint(msg) == encoding = "utf-8" \/ msg \notin NonAsciiMessages

\* print_status, then sys.exit(code); a print that raises prints nothing
\* and the uncaught exception ends the process with status 1
ExitWith(code, msg, file) ==
    /\ out' = IF CanPrint(msg) THEN Append(out, Status(msg, file)) ELSE out
    /\ exitCode' = IF CanPrint(msg) THEN code ELSE 1
    /\ pc' = "exit"

\* lines 127-129
Usage ==
    /\ pc = "start"
    /\ Len(argv) < 2
    /\ ExitWith(1, MSG_USAGE, <<>>)
    /\ UNCHANGED <<encoding, argv, disk, disk0, walk, files, idx, do_fix, lines, input,
                   prev, log>>

\* the file is selected whatever its extension
WrongExtension_selected ==
    /\ pc = "start"
    /\ Len(argv) >= 2
    /\ IsFile(argv[1])
    /\ ~EndsWith(argv[1], C_EXTENSIONS)
    /\ do_fix' = ParseFix(argv[2])
    /\ files' = <<argv[1]>>
    /\ idx' = 1
    /\ pc' = "loop"
    /\ UNCHANGED <<encoding, argv, disk, disk0, walk, lines, input, prev, out, log,
                   exitCode>>

\* lines 135-141, the else branch
WrongExtension ==
    /\ pc = "start"
    /\ Len(argv) >= 2
    /\ IsFile(argv[1])
    /\ ~EndsWith(argv[1], C_EXTENSIONS)
    /\ do_fix' = ParseFix(argv[2])
    /\ ExitWith(1, MSG_NOT_C_FILE, argv[1])
    /\ UNCHANGED <<encoding, argv, disk, disk0, walk, files, idx, lines, input, prev,
                   log>>

\* lines 135-138
SelectFile ==
    /\ pc = "start"
    /\ Len(argv) >= 2
    /\ IsFile(argv[1])
    /\ EndsWith(argv[1], C_EXTENSIONS)
    /\ do_fix' = ParseFix(argv[2])
    /\ files' = <<argv[1]>>
    /\ idx' = 1
    /\ pc' = "loop"
    /\ UNCHANGED <<encoding, argv, disk, disk0, walk, lines, input, prev, out, log,
                   exitCode>>

\* lines 142-143
SelectDir ==
    /\ pc = "start"
    /\ Len(argv) >= 2
    /\ ~IsFile(argv[1])
    /\ IsDir(argv[1])
    /\ do_fix' = ParseFix(argv[2])
    /\ files' = get_all_c_files(argv[1], walk)
    /\ idx' = 1
    /\ pc' = "loop"
    /\ UNCHANGED <<encoding, argv, disk, disk0, walk, lines, input, prev, out, log,
                   exitCode>>

\* lines 144-146
NotFound ==
    /\ pc = "start"
    /\ Len(argv) >= 2
    /\ ~IsFile(argv[1])
    /\ ~IsDir(argv[1])
    /\ do_fix' = ParseFix(argv[2])
    /\ ExitWith(1, MSG_FILE_NOT_FOUND, argv[1])
    /\ UNCHANGED <<encoding, argv, disk, disk0, walk, files, idx, lines, input, prev,
                   log>>

\* an exception no handler catches: traceback, exit status 1
Abort(file) ==
    /\ log' = Append(log, Event("fail", file))
    /\ exitCode' = 1
    /\ pc' = "exit"

\* lines 149-150 and 83-84: the fix is called and reads the file
FixRead ==
    /\ pc = "loop"
    /\ idx <= Len(files)
    /\ do_fix
    /\ lines' = disk[files[idx]]
    /\ log' = Append(log, Event("read", files[idx]))
    /\ pc' = "fix_write"
    /\ UNCHANGED <<encoding, argv, disk, disk0, walk, files, idx, do_fix, input, prev,
                   out, exitCode>>

\* lines 83-84: open or readlines raises
FixReadFails ==
    /\ pc = "loop"
    /\ idx <= Len(files)
    /\ do_fix
    /\ Abort(files[idx])
    /\ UNCHANGED <<encoding, argv, disk, disk0, walk, files, idx, do_fix, lines, input,
                   prev, out>>

\* lines 87-95: normalizer, rewriter, full overwrite, completion status
FixWrite ==
    /\ pc = "fix_write"
    /\ CanPrint(MSG_LINTING_COMPLETE)
    /\ lines' = FixLines(lines)
    /\ disk' = [disk EXCEPT ![files[idx]] = FixLines(lines)]
    /\ out' = Append(out, Status(MSG_LINTING_COMPLETE, files[idx]))
    /\ log' = Append(log, Event("write", files[idx]))
    /\ pc' = "lint"
    /\ UNCHANGED <<encoding, argv, disk0, walk, files, idx, do_fix, input, prev,
                   exitCode>>

\* lines 92-95: the file is written and the print of the completion
\* status raises: the run ends before the lint
FixPrintFails ==
    /\ pc = "fix_write"
    /\ ~CanPrint(MSG_LINTING_COMPLETE)
    /\ lines' = FixLines(lines)
    /\ disk' = [disk EXCEPT ![files[idx]] = FixLines(lines)]
    /\ log' = log \o << Event("write", files[idx]), Event("fail", files[idx]) >>
    /\ exitCode' = 1
    /\ pc' = "exit"
    /\ UNCHANGED <<encoding, argv, disk0, walk, files, idx, do_fix, input,
                   prev, out>>

\* lines 87-93: the lines are fixed, then open(filename, 'w') raises and
\* the file is as it was, or
\* it truncates the file and the write stops after any number k of
\* characters of the new text
FixWriteFails ==
    /\ pc = "fix_write"
    /\ \/ disk' = disk
       \/ \E k \in 0..Len(Concat(FixLines(lines))) :
             disk' = [disk EXCEPT ![files[idx]] =
                         SplitLines(SubSeq(Concat(FixLines(lines)), 1, k))]
    /\ lines' = FixLines(lines)
    /\ Abort(files[idx])
    /\ UNCHANGED <<encoding, argv, disk0, walk, files, idx, do_fix, input,
                   prev, out>>

\* the lint rewrites the file it read
Lint_rewrites ==
    /\ pc = IF do_fix THEN "lint" ELSE "loop"
    /\ idx <= Len(files)
    /\ lines' = disk[files[idx]]
    /\ disk' = [disk EXCEPT ![files[idx]] = FixLines(disk[files[idx]])]
    /\ out' = out \o [i \in 1..Len(lint_c_code(disk[files[idx]])) |->
                        Printed(files[idx], lint_c_code(disk[files[idx]])[i])]
    /\ log' = Append(log, Event("lint", files[idx]))
    /\ idx' = idx + 1
    /\ pc' = "loop"
    /\ UNCHANGED <<encoding, argv, disk0, walk, files, do_fix, input, prev, exitCode>>

\* lines 151 and 97-115: lint_c_code reads the file and prints what it finds
Lint ==
    /\ pc = IF do_fix THEN "lint" ELSE "loop"
    /\ idx <= Len(files)
    /\ lines' = disk[files[idx]]
    /\ out' = out \o [i \in 1..Len(lint_c_code(disk[files[idx]])) |->
                        Printed(files[idx], lint_c_code(disk[files[idx]])[i])]
    /\ log' = Append(log, Event("lint", files[idx]))
    /\ idx' = idx + 1
    /\ pc' = "loop"
    /\ UNCHANGED <<encoding, argv, disk, disk0, walk, files, do_fix, input, prev,
                   exitCode>>

\* the exception is caught and the run goes on with the next file
LintFails_continues ==
    /\ pc = IF do_fix THEN "lint" ELSE "loop"
    /\ idx <= Len(files)
    /\ log' = Append(log, Event("fail", files[idx]))
    /\ idx' = idx + 1
    /\ pc' = "loop"
    /\ UNCHANGED <<encoding, argv, disk, disk0, walk, files, do_fix, lines, input, prev,
                   out, exitCode>>

\* lines 99-100: open or readlines raises
LintFails ==
    /\ pc = IF do_fix THEN "lint" ELSE "loop"
    /\ idx <= Len(files)
    /\ Abort(files[idx])
    /\ UNCHANGED <<encoding, argv, disk, disk0, walk, files, idx, do_fix, lines, input,
                   prev, out>>

\* the loop of line 148 is over: the interpreter exits with status 0
Finish ==
    /\ pc = "loop"
    /\ idx > Len(files)
    /\ exitCode' = 0
    /\ pc' = "exit"
    /\ UNCHANGED <<encoding, argv, disk, disk0, walk, files, idx, do_fix, lines, input,
                   prev, out, log>>

Next ==
    \/ Usage
    \/ WrongExtension
    \/ SelectFile
    \/ SelectDir
    \/ NotFound
    \/ FixRead
    \/ FixReadFails
    \/ FixWrite
    \/ FixPrintFails
    \/ FixWriteFails
    \/ Lint
    \/ LintFails
    \/ Finish

Spec == Init /\ [][Next]_vars

----------------------------------------------------------------------------
(* Vocabulary of the properties                                            *)

IsWs(c) == c \in Whitespace

\* the non-whitespace characters of a text, in order
NonWs(s) == SelectSeq(s, LAMBDA c : c \notin Whitespace)

\* the number of leading whitespace characters of a line
LeadWs(l) ==
    CHOOSE n \in 0..Len(l) :
        /\ \A k \in 1..n : IsWs(l[k])
        /\ n < Len(l) => ~IsWs(l[n + 1])

IndentOf(l) == SubSeq(l, 1, LeadWs(l))

\* the first position from i on that holds a character of cs, 0 if none
FirstIn(l, cs, i) ==
    IF \E k \in i..Len(l) : l[k] \in cs
    THEN CHOOSE k \in i..Len(l) :
            l[k] \in cs /\ \A j \in i..(k - 1) : l[j] \notin cs
    ELSE 0

\* the line holds one brace and nothing else but whitespace
LoneBrace(l) == NonWs(l) \in { <<"{">>, <<"}">> }

\* where the word else starts in a line of the else shape: after the
\* indentation, a closing brace and optional whitespace
ElseStart(l) ==
    IF LeadWs(l) < Len(l) /\ l[LeadWs(l) + 1] = "}"
    THEN LeadWs(l) + 2 + LeadWs(SubSeq(l, LeadWs(l) + 2, Len(l)))
    ELSE 0

\* indentation, "}", whitespace, the word else, text without "{", "{"
ElseShape(l) ==
    LET b == ElseStart(l)
    IN /\ b > 0
       /\ b + 3 <= Len(l)
       /\ SubSeq(l, b, b + 3) = <<"e", "l", "s", "e">>
       /\ ~IsWordAt(l, b + 4)
       /\ FirstIn(l, {"{"}, b + 4) > 0

\* the three lines the else rule is to write for a line of the else shape
ElseExpected(l) ==
    LET b == ElseStart(l)
        c == FirstIn(l, {"{"}, b + 4)
    IN << IndentOf(l) \o <<"}", "\n">>,
          IndentOf(l) \o Strip(SubSeq(l, b, c - 1)) \o NL,
          IndentOf(l) \o <<"{", "\n">> >>

\* ")" at p, "{" at q, only whitespace between them
HeaderAt(l, p, q) ==
    /\ p < q
    /\ l[p] = ")"
    /\ l[q] = "{"
    /\ \A k \in (p + 1)..(q - 1) : IsWs(l[k])

\* the line holds a ")" followed by optional whitespace and "{"
GeneralShape(l) == \E p, q \in 1..Len(l) : HeaderAt(l, p, q)

\* the lines the general header rule is to write when the header ends at
\* p and its brace is at q
GeneralExpected(l, p, q) ==
    LET rest == SubSeq(l, q + 1, Len(l))
    IN << SubSeq(l, 1, p) \o NL, IndentOf(l) \o <<"{", "\n">> >>
       \o (IF NonWs(rest) # <<>>
           THEN << IndentOf(l) \o Strip(rest) \o NL >>
           ELSE <<>>)

\* the lines of the rewriter's output that come from its i-th input line
Segment(i) ==
    SubSeq(lines,
           Len(fix_brace_placement(SubSeq(prev, 1, i - 1))) + 1,
           Len(fix_brace_placement(SubSeq(prev, 1, i))))

\* the "*" at k stands between two word tokens
BetweenWords(l, k) ==
    /\ l[k] = "*"
    /\ \E a \in 1..(k - 1) :
          IsWordAt(l, a) /\ \A b \in (a + 1)..(k - 1) : IsWs(l[b])
    /\ \E a \in (k + 1)..Len(l) :
          IsWordAt(l, a) /\ \A b \in (k + 1)..(a - 1) : IsWs(l[b])

\* one space before the "*", a word before that space, a word right after
SpacedAt(l, k) ==
    /\ k > 2
    /\ l[k - 1] = " "
    /\ IsWordAt(l, k - 2)
    /\ IsWordAt(l, k + 1)

Failed == Len(log) > 0 /\ log[Len(log)].op = "fail"

\* the file operations of a run that meets no failure, in order
RECURSIVE Planned(_, _)
Planned(fs, fix) ==
    IF fs = <<>>
    THEN <<>>
    ELSE (IF fix
          THEN << Event("read", Head(fs)), Event("write", Head(fs)),
                  Event("lint", Head(fs)) >>
          ELSE << Event("lint", Head(fs)) >>)
         \o Planned(Tail(fs), fix)

\* the operations that succeeded
Done == IF Failed THEN SubSeq(log, 1, Len(log) - 1) ELSE log

IsPrefix(a, b) == Len(a) <= Len(b) /\ a = SubSeq(b, 1, Len(a))

----------------------------------------------------------------------------
(* Properties                                                              *)

\* C1: the rewriter only redistributes text: the non-whitespace characters
\* of its output, read in order, are those of its input.
CexC1_TextPreserved ==
    pc = "rewritten" => NonWs(Concat(lines)) = NonWs(Concat(prev))

\* C2: on a file for which the linter reports nothing, the fix pass
\* (normalizer, then rewriter) returns the lines it was given and the lint
\* that follows reports nothing.
CexC2_CompliantUntouched ==
    (pc = "linted" /\ lint_c_code(input) = <<>>)
        => (lines = input /\ out = <<>>)

\* C3: a line that is not a lone brace and has the else shape is rewritten
\* to exactly three lines, each starting with the line's indentation: "}",
\* the trimmed else text without its brace, and "{"; this also when the
\* line has the general header shape.
ThmC3_ElseThreeLines ==
    pc = "rewritten" =>
        \A i \in 1..Len(prev) :
            (~LoneBrace(prev[i]) /\ ElseShape(prev[i]))
                => Segment(i) = ElseExpected(prev[i])

WitC3_ElseAndHeader ==
    /\ pc = "rewritten"
    /\ \E i \in 1..Len(prev) :
          /\ ElseShape(prev[i])
          /\ GeneralShape(prev[i])
          /\ Segment(i) = ElseExpected(prev[i])

\* C4: a line that is not a lone brace, has not the else shape and has the
\* general header shape is rewritten to the prefix ending in ")", a line
\* holding "{" at the line's indentation, and a third line with the trimmed
\* trailing text, at the same indentation, exactly when that text is not
\* empty or blank.
ThmC4_HeaderTwoOrThreeLines ==
    pc = "rewritten" =>
        \A i \in 1..Len(prev) :
            (~LoneBrace(prev[i]) /\ ~ElseShape(prev[i])
             /\ GeneralShape(prev[i]))
                => \E p, q \in 1..Len(prev[i]) :
                      /\ HeaderAt(prev[i], p, q)
                      /\ Segment(i) = GeneralExpected(prev[i], p, q)

WitC4_HeaderWithTrailingText ==
    /\ pc = "rewritten"
    /\ \E i \in 1..Len(prev) :
          /\ ~ElseShape(prev[i])
          /\ GeneralShape(prev[i])
          /\ LeadWs(prev[i]) > 0
          /\ Len(Segment(i)) = 3

\* C5: in the normalizer's result every "*" between two word tokens has
\* exactly one space before it and no whitespace after it.
CexC5_EveryStarSpaced ==
    pc = "normalized" =>
        \A i \in 1..Len(lines) :
            \A k \in 1..Len(lines[i]) :
                BetweenWords(lines[i], k) => SpacedAt(lines[i], k)

\* C6: the normalizer is idempotent: applied to its own result it changes
\* nothing.
ThmC6_NormalizerIdempotent ==
    pc = "renormalized" => lines = prev

WitC6_NormalizedTwice ==
    /\ pc = "renormalized"
    /\ prev # input
    /\ lines = prev

\* C7: the content of a file changes only in the write of the fix, which
\* runs only with fixing enabled; the lint never changes a file.
ThmC7_OnlyFixWrites ==
    [][disk' # disk => (do_fix /\ pc = "fix_write")]_vars

WitC7_LintOnlyRun ==
    /\ pc = "exit"
    /\ exitCode = 0
    /\ ~do_fix
    /\ Len(log) > 1
    /\ disk = disk0
    /\ \E i \in 1..Len(out) : out[i].lineno > 0

\* C8: the exit status is 1, and no file was read, written or linted, with
\* fewer than 2 arguments, with a file target that is no .c or .h file and
\* with a target that is no file and no directory; every other run that
\* meets no I/O failure ends with status 0.
ThmC8_ExitCodes ==
    pc = "exit" =>
        LET refused ==
                \/ Len(argv) < 2
                \/ argv[1] \in DOMAIN disk0
                   /\ ~EndsWith(argv[1], C_EXTENSIONS)
                \/ argv[1] \notin DOMAIN disk0 /\ ~IsDir(argv[1])
        IN /\ refused => (exitCode = 1 /\ log = <<>> /\ disk = disk0)
           /\ (~refused /\ ~Failed) => exitCode = 0

WitC8_WrongExtension ==
    /\ pc = "exit"
    /\ exitCode = 1
    /\ Len(argv) >= 2
    /\ argv[1] \in DOMAIN disk0
    /\ ~EndsWith(argv[1], C_EXTENSIONS)
    /\ log = <<>>

\* C9: files are processed one at a time in discovery order (read, write
\* and lint of a file with fixing, lint alone without), a failure ends the
\* run at once, and the files written before it keep what was written.
ThmC9_SequentialAbort ==
    LET plan == Planned(files, do_fix)
    IN /\ IsPrefix(Done, plan)
       /\ Failed =>
             /\ pc = "exit"
             /\ exitCode = 1
             /\ Len(Done) < Len(plan)
             /\ log[Len(log)].file = plan[Len(Done) + 1].file
       /\ \A f \in DOMAIN disk :
             \/ /\ \E i \in 1..Len(Done) : Done[i] = Event("write", f)
                /\ disk[f] = FixLines(disk0[f])
             \/ /\ \A i \in 1..Len(Done) : Done[i] # Event("write", f)
                /\ \/ disk[f] = disk0[f]
                   \/ /\ Failed
                      /\ plan[Len(Done) + 1] = Event("write", f)
                      /\ IsPrefix(Concat(disk[f]),
                                  Concat(FixLines(disk0[f])))

WitC9_FailureAfterRewrite ==
    /\ Failed
    /\ Len(files) > 1
    /\ log[Len(log)].file = files[2]
    /\ disk[files[1]] # disk0[files[1]]
    /\ disk[files[1]] = FixLines(disk0[files[1]])

\* C10: no line of the rewriter's output holds a ")" followed by optional
\* whitespace and "{".
CexC10_NoHeaderBraceLeft ==
    pc = "rewritten" => \A i \in 1..Len(lines) : ~GeneralShape(lines[i])

====
